---------------------------- MODULE Spec2Model ----------------------------
(***************************************************************************)
(* State-machine model of the investment dashboard (src/app.py): the two   *)
(* cached price-series loaders, the overview card that consumes a loaded   *)
(* series, and the stock screening pass screen_stocks_by_market.           *)
(*                                                                         *)
(* A price series is held in the state by the identifier of the provider   *)
(* response it came from (field sid); Bars(sid) expands it to its bars.     *)
(* Prices and volumes are integers, as the exchange feed delivers them, so *)
(* the code's float comparisons (close >= high * 0.98, recent > prev * 1.2,*)
(* close > mean of 60 closes) are modelled by the equivalent exact integer *)
(* comparisons.                                                            *)
(***************************************************************************)
EXTENDS Integers, Sequences, FiniteSets, TLC

VARIABLES
    cache,           \* st.cache_data stores of both loaders: the entries held, by
                     \* <<fn, ticker, period>>
    fresh,           \* per key, the series the provider last delivered, while within TTL
    lastLoad,        \* the most recent loader call and what it returned
    card,            \* outcome of the most recent overview card
    pc,              \* position of the screening pass
    symbols_dict,    \* the universe of the pass, in insertion order
    idx,             \* loop index of the pass (0-based, as enumerate())
    new_high_stocks, \* result list of the pass
    processed,       \* counter of the pass
    errors,          \* counter of the pass
    data,            \* the pass's 1-month series of the current symbol
    data_3m,         \* the pass's 3-month series of the current symbol
    trace,           \* per symbol, the steps the pass ran for it, in order
    shown,           \* (idx+1) of the last progress update, 0 before any
    market_type,     \* the market of the running screening, "none" without one
    probes,          \* the market-cap probes of the acquisition so far, in order
    market_cap_df,   \* the listing the acquisition has settled on, if any
    origin,          \* where symbols_dict came from: a listing or a hardcoded list
    eps_lookup,      \* the latest call of get_operating_income_change on its own
    series_in,       \* the series a caller hands to calculate_indicators
    frame_out,       \* the frame calculate_indicators returned for it
    frame_again      \* the frame a second call returned for it

vars == <<cache, fresh, lastLoad, card, pc, symbols_dict, idx, new_high_stocks,
          processed, errors, data, data_3m, trace, shown,
          market_type, probes, market_cap_df, origin,
          eps_lookup, series_in, frame_out, frame_again>>

acqVars == <<market_type, probes, market_cap_df, origin>>

callVars == <<eps_lookup, series_in, frame_out, frame_again>>

passVars == <<pc, symbols_dict, idx, new_high_stocks, processed, errors, data, data_3m,
              trace, shown>>

-----------------------------------------------------------------------------
(* Program constants.                                                      *)

TTL == 300                \* @st.cache_data(ttl=300)
MinBars1m == 20           \* len(data) < 20
NewHighWindow == 20       \* data['High'][-20:]
NewHighPct == 98          \* high_20d * 0.98
RecentVolWindow == 5      \* data['Volume'][-5:]
PrevVolStart == 15        \* data['Volume'][-15:-5]
VolSurgeTenths == 12      \* prev_volume_avg * 1.2
MinBars3m == 60           \* len(data_3m) >= 60
MA60Window == 60          \* rolling(window=60)
MaxProbes == 7            \* for i in range(7)
TopN == 400               \* market_cap_df.head(400)
ProbeDays == 90           \* for i in range(90)
MA20Window == 20          \* rolling(window=20)
MA50Window == 50          \* rolling(window=50)
MA200Window == 200        \* rolling(window=200)
StochWindow == 10         \* StochasticOscillator(window=10)
StochSmooth == 6          \* StochasticOscillator(smooth_window=6)
LagShift == 26            \* close_series.shift(-26)
BBWindow == 18            \* BollingerBands(window=18)
BBDev == 2                \* BollingerBands(window_dev=2.0)

(* Model bound: the clock advances in steps of TickStep seconds.           *)
TickStep == 150

(* Model bound: the screening runs over the first FallbackLen entries of a *)
(* hardcoded list.                                                         *)
FallbackLen == 2

(* Model bound: the longest series handed to calculate_indicators.         *)
LongSeries == 201

-----------------------------------------------------------------------------
(* Values.                                                                 *)

NotAvailable == [kind |-> "None"]
Absent == [kind |-> "absent"]

Bar(h, c, v) == [High |-> h, Close |-> c, Volume |-> v]

(* Universes of the pass: the names and symbols of a market's listing.     *)
Universe ==
    << [name |-> "A", symbol |-> "000001.KS"],
       [name |-> "B", symbol |-> "000002.KS"],
       [name |-> "C", symbol |-> "000003.KS"] >>

(* symbol.replace(".KS", "").replace(".KQ", "")                             *)
TickerCode(symbol) ==
    CASE symbol = "000001.KS" -> "000001"
      [] symbol = "000002.KS" -> "000002"
      [] symbol = "000003.KS" -> "000003"
      [] symbol = "000001.KQ" -> "000001"
      [] symbol = "000002.KQ" -> "000002"
      [] symbol = "000003.KQ" -> "000003"
      [] symbol = "005930.KS" -> "005930"
      [] symbol = "000660.KS" -> "000660"
      [] symbol = "373220.KS" -> "373220"
      [] symbol = "006400.KS" -> "006400"
      [] symbol = "066570.KS" -> "066570"
      [] symbol = "009150.KS" -> "009150"
      [] symbol = "402340.KS" -> "402340"
      [] symbol = "035420.KS" -> "035420"
      [] symbol = "035720.KS" -> "035720"
      [] symbol = "207940.KS" -> "207940"
      [] symbol = "068270.KS" -> "068270"
      [] symbol = "091990.KS" -> "091990"
      [] symbol = "005380.KS" -> "005380"
      [] symbol = "000270.KS" -> "000270"
      [] symbol = "012330.KS" -> "012330"
      [] symbol = "051910.KS" -> "051910"
      [] symbol = "005490.KS" -> "005490"
      [] symbol = "096770.KS" -> "096770"
      [] symbol = "022100.KS" -> "022100"
      [] symbol = "011170.KS" -> "011170"
      [] symbol = "105560.KS" -> "105560"
      [] symbol = "055550.KS" -> "055550"
      [] symbol = "086790.KS" -> "086790"
      [] symbol = "316140.KS" -> "316140"
      [] symbol = "032830.KS" -> "032830"
      [] symbol = "000810.KS" -> "000810"
      [] symbol = "028260.KS" -> "028260"
      [] symbol = "000720.KS" -> "000720"
      [] symbol = "267250.KS" -> "267250"
      [] symbol = "004170.KS" -> "004170"
      [] symbol = "023530.KS" -> "023530"
      [] symbol = "097950.KS" -> "097950"
      [] symbol = "247540.KQ" -> "247540"
      [] symbol = "066970.KQ" -> "066970"
      [] symbol = "196170.KQ" -> "196170"
      [] symbol = "058470.KQ" -> "058470"
      [] symbol = "086520.KQ" -> "086520"
      [] symbol = "028300.KQ" -> "028300"
      [] symbol = "240810.KQ" -> "240810"
      [] symbol = "140860.KQ" -> "140860"
      [] symbol = "096530.KQ" -> "096530"
      [] symbol = "403870.KQ" -> "403870"
      [] symbol = "035760.KQ" -> "035760"
      [] symbol = "108860.KQ" -> "108860"

(* The hardcoded large-cap lists, in the order the dict literals give.     *)
KospiFallback ==
    << [name |-> "Samsung Electronics", symbol |-> "005930.KS"],
       [name |-> "SK hynix", symbol |-> "000660.KS"],
       [name |-> "LG Energy Solution", symbol |-> "373220.KS"],
       [name |-> "Samsung SDI", symbol |-> "006400.KS"],
       [name |-> "LG Electronics", symbol |-> "066570.KS"],
       [name |-> "Samsung Electro-Mechanics", symbol |-> "009150.KS"],
       [name |-> "SK Square", symbol |-> "402340.KS"],
       [name |-> "NAVER", symbol |-> "035420.KS"],
       [name |-> "Kakao", symbol |-> "035720.KS"],
       [name |-> "Samsung Biologics", symbol |-> "207940.KS"],
       [name |-> "Celltrion", symbol |-> "068270.KS"],
       [name |-> "Celltrion Healthcare", symbol |-> "091990.KS"],
       [name |-> "Hyundai Motor", symbol |-> "005380.KS"],
       [name |-> "Kia", symbol |-> "000270.KS"],
       [name |-> "Hyundai Mobis", symbol |-> "012330.KS"],
       [name |-> "LG Chem", symbol |-> "051910.KS"],
       [name |-> "POSCO Holdings", symbol |-> "005490.KS"],
       [name |-> "SK Innovation", symbol |-> "096770.KS"],
       [name |-> "POSCO DX", symbol |-> "022100.KS"],
       [name |-> "Lotte Chemical", symbol |-> "011170.KS"],
       [name |-> "KB Financial", symbol |-> "105560.KS"],
       [name |-> "Shinhan Financial", symbol |-> "055550.KS"],
       [name |-> "Hana Financial", symbol |-> "086790.KS"],
       [name |-> "Woori Financial", symbol |-> "316140.KS"],
       [name |-> "Samsung Life", symbol |-> "032830.KS"],
       [name |-> "Samsung Fire", symbol |-> "000810.KS"],
       [name |-> "Samsung C&T", symbol |-> "028260.KS"],
       [name |-> "Hyundai E&C", symbol |-> "000720.KS"],
       [name |-> "HD Hyundai", symbol |-> "267250.KS"],
       [name |-> "Shinsegae", symbol |-> "004170.KS"],
       [name |-> "Lotte Shopping", symbol |-> "023530.KS"],
       [name |-> "CJ CheilJedang", symbol |-> "097950.KS"] >>

KosdaqFallback ==
    << [name |-> "EcoPro BM", symbol |-> "247540.KQ"],
       [name |-> "L&F", symbol |-> "066970.KQ"],
       [name |-> "Alteogen", symbol |-> "196170.KQ"],
       [name |-> "Leeno Industrial", symbol |-> "058470.KQ"],
       [name |-> "EcoPro", symbol |-> "086520.KQ"],
       [name |-> "HLB", symbol |-> "028300.KQ"],
       [name |-> "Wonik IPS", symbol |-> "240810.KQ"],
       [name |-> "Park Systems", symbol |-> "140860.KQ"],
       [name |-> "Seegene", symbol |-> "096530.KQ"],
       [name |-> "HPSP", symbol |-> "403870.KQ"],
       [name |-> "CJ ENM", symbol |-> "035760.KQ"],
       [name |-> "Selvas AI", symbol |-> "108860.KQ"] >>

Min(a, b) == IF a <= b THEN a ELSE b

(* if market_type == "KOSPI": ... else: ...                                *)
FallbackAlwaysKospi(market) == SubSeq(KospiFallback, 1, Min(FallbackLen, Len(KospiFallback)))

FallbackList(market) ==
    IF market = "KOSPI"
    THEN SubSeq(KospiFallback, 1, Min(FallbackLen, Len(KospiFallback)))
    ELSE SubSeq(KosdaqFallback, 1, Min(FallbackLen, Len(KosdaqFallback)))

Markets == {"KOSPI", "KOSDAQ"}

Codes ==
    {TickerCode(Universe[i].symbol) : i \in 1..Len(Universe)}
    \cup UNION {{TickerCode(FallbackList(m)[i].symbol) : i \in 1..Len(FallbackList(m))} :
                 m \in Markets}

SmallUniverse == SubSeq(Universe, 1, 2)

-----------------------------------------------------------------------------
(* Provider data.  Bars(sid) is the series the provider delivered under    *)
(* identifier sid.  The 1-month series have 21 bars: bar 1 lies outside    *)
(* the trailing 20-bar window and carries a high of 200; the last 5 bars    *)
(* carry the recent volume, the 10 before them volume 10, the first 6      *)
(* volume 1000.  The 3-month series have 59 to 61 bars.                     *)

Flat(n, px, vol) == [i \in 1..n |-> Bar(px, px, vol)]

Month(lastClose, recentVol) ==
    [i \in 1..21 |->
        Bar(IF i = 1 THEN 200 ELSE 100,
            IF i = 21 THEN lastClose ELSE 95,
            IF i >= 17 THEN recentVol ELSE IF i >= 7 THEN 10 ELSE 1000)]

Quarter(n, lastClose) ==
    [i \in 1..n |-> Bar(100, IF i = n THEN lastClose ELSE 90, 10)]

Bars(sid) ==
    CASE sid = "m_short"   -> Flat(19, 100, 10)
      [] sid = "m_garbled" -> Month(98, 15)
      [] sid = "m_nhfail"  -> Month(97, 15)
      [] sid = "m_volfail" -> Month(98, 12)
      [] sid = "m_pass30"  -> Month(98, 13)
      [] sid = "m_pass50"  -> Month(98, 15)
      [] sid = "q_short"   -> Flat(59, 100, 10)
      [] sid = "q_garbled" -> Quarter(60, 98)
      [] sid = "q_flat"    -> Flat(60, 100, 10)
      [] sid = "q_up"      -> Quarter(61, 98)
      [] sid = "q_stale"   -> Quarter(61, 96)
      [] sid = "y_one"     -> Flat(1, 100, 10)
      [] sid = "y_two"     -> Flat(2, 100, 10)

(* Series whose price columns hold non-numeric values: any arithmetic on   *)
(* them raises.                                                            *)
Garbled(sid) == sid \in {"m_garbled", "q_garbled"}

(* period_days.get(period, 365)                                            *)
PeriodDays(period) ==
    CASE period = "1mo" -> 30
      [] period = "3mo" -> 90
      [] period = "6mo" -> 180
      [] period = "1y"  -> 365
      [] period = "2y"  -> 730
      [] period = "5y"  -> 1825
      [] OTHER          -> 365

(* What pykrx's get_market_ohlcv_by_date can answer for a date range: it   *)
(* raises, returns None, returns an empty frame, returns a frame whose      *)
(* column count is not 6, or returns rows.                                  *)
Failures == {[kind |-> "raise"], [kind |-> "none"], [kind |-> "empty"]}

Rows(sids) == {[kind |-> "rows", sid |-> s, multi |-> FALSE] : s \in sids}

KoreanResponses(days) ==
    Failures \cup {[kind |-> "badcols"]} \cup
    IF days <= 30
    THEN Rows({"m_short", "m_garbled", "m_nhfail", "m_volfail", "m_pass30", "m_pass50"})
    ELSE Rows({"q_short", "q_garbled", "q_flat", "q_up", "q_stale"})

(* What yf.download can answer: as above, and rows under flat or           *)
(* two-level columns.                                                      *)
YahooResponses ==
    Failures \cup
    {[kind |-> "rows", sid |-> s, multi |-> m] : s \in {"y_one", "y_two"}, m \in BOOLEAN}

(* A loaded series: the canonical OHLCV frame of provider response sid,    *)
(* fetched for (ticker, period); cols are the derived columns added to it. *)
Frame(ticker, period, sid) ==
    [kind |-> "frame", ticker |-> ticker, period |-> period, sid |-> sid, cols |-> {}]

Returned(v) == [kind |-> "ret", val |-> v]
Raised == [kind |-> "exc"]

-----------------------------------------------------------------------------
(* Universe acquisition: the market-cap listing of a day, as the exchange  *)
(* provider answers it.                                                    *)

CapRow(ticker, cap) == [ticker |-> ticker, cap |-> cap]

(* The listing of the day i days ago; the capitalizations differ from one  *)
(* day to the next, and so does their order.                               *)
Listing(day) ==
    IF day % 2 = 0
    THEN <<CapRow("000001", 300), CapRow("000002", 200)>>
    ELSE <<CapRow("000001", 200), CapRow("000002", 300)>>

(* What get_market_cap_by_ticker can answer for a day: it raises, or       *)
(* returns a frame without rows (a holiday), with rows of zero             *)
(* capitalization, or with the day's listing.                              *)
CapResponses(day) ==
    {[kind |-> "raise"],
     [kind |-> "frame", rows |-> <<>>],
     [kind |-> "frame", rows |-> <<CapRow("000001", 0), CapRow("000002", 0)>>],
     [kind |-> "frame", rows |-> Listing(day)]}

RECURSIVE SumCap(_)
SumCap(rows) == IF rows = <<>> THEN 0 ELSE Head(rows).cap + SumCap(Tail(rows))

(* not df_temp.empty and df_temp['시가총액'].sum() > 0, inside the try       *)
HasMarketCap(answer) ==
    /\ answer.kind = "frame"
    /\ Len(answer.rows) > 0
    /\ SumCap(answer.rows) > 0

ProbeKind(answer) ==
    IF answer.kind = "raise" THEN "raise"
    ELSE IF Len(answer.rows) = 0 THEN "empty"
    ELSE IF SumCap(answer.rows) = 0 THEN "zero"
    ELSE "data"

(* Mutant: no break, the loop goes on to older days.                       *)
AfterProbeNoBreak(found, probed, df) ==
    IF probed < MaxProbes THEN "probe"
    ELSE IF df = NotAvailable THEN "fallback"
    ELSE "names"

(* Where the probe loop goes after a pass: break on a listing; the next    *)
(* day; or, after range(7), the test of market_cap_df and its raise.       *)
AfterProbe(found, probed, df) ==
    IF found THEN "names"
    ELSE IF probed < MaxProbes THEN "probe"
    ELSE IF df = NotAvailable THEN "fallback"
    ELSE "names"

(* sort_values('시가총액', ascending=False)                                  *)
RECURSIVE InsertByCap(_, _)
InsertByCap(sorted, row) ==
    IF sorted = <<>> THEN <<row>>
    ELSE IF Head(sorted).cap >= row.cap
         THEN <<Head(sorted)>> \o InsertByCap(Tail(sorted), row)
         ELSE <<row>> \o sorted

RECURSIVE SortByCap(_)
SortByCap(rows) ==
    IF rows = <<>> THEN <<>>
    ELSE InsertByCap(SortByCap(SubSeq(rows, 1, Len(rows) - 1)), rows[Len(rows)])

(* market_cap_df.sort_values(...).head(400).index.tolist()                  *)
top_tickers(rows) ==
    LET sorted == SortByCap(rows)
    IN  [i \in 1..Min(TopN, Len(sorted)) |-> sorted[i].ticker]

Tickers(rows) == {rows[i].ticker : i \in 1..Len(rows)}

(* stock.get_market_ticker_name(ticker)                                    *)
TickerName(ticker) ==
    CASE ticker = "000001" -> "A"
      [] ticker = "000002" -> "B"
      [] ticker = "000003" -> "C"

(* suffix = ".KS" if market_type == "KOSPI" else ".KQ"                      *)
Suffix(market) == IF market = "KOSPI" THEN ".KS" ELSE ".KQ"

(* symbols_dict[name] = value: a new key goes last, a known key keeps its  *)
(* place.                                                                  *)
DictPut(dict, name, symbol) ==
    IF \E i \in 1..Len(dict) : dict[i].name = name
    THEN [i \in 1..Len(dict) |->
             IF dict[i].name = name THEN [name |-> name, symbol |-> symbol] ELSE dict[i]]
    ELSE Append(dict, [name |-> name, symbol |-> symbol])

(* The loop over top_tickers; unnamed are the tickers whose name lookup    *)
(* raises.                                                                 *)
RECURSIVE NameTickers(_, _, _)
NameTickers(tickers, unnamed, suffix) ==
    IF tickers = <<>> THEN <<>>
    ELSE LET before == NameTickers(SubSeq(tickers, 1, Len(tickers) - 1), unnamed, suffix)
             ticker == tickers[Len(tickers)]
         IN  IF ticker \in unnamed THEN before
             ELSE DictPut(before, TickerName(ticker), ticker \o suffix)

-----------------------------------------------------------------------------
(* The loaders.                                                            *)

(* The try block of load_data: yf.download, the empty test, the flattening *)
(* of two-level columns.  A None answer raises at data.empty.              *)
TryLoadData(ticker, period, resp) ==
    CASE resp.kind = "raise" -> Raised
      [] resp.kind = "none"  -> Raised
      [] resp.kind = "empty" -> Returned(NotAvailable)
      [] resp.kind = "rows"  -> Returned(Frame(ticker, period, resp.sid))

(* The try block of load_korean_stock_data: the date-ranged query, the     *)
(* None/empty test, the renaming of the six columns (which raises when the *)
(* frame does not have six) and the selection of the OHLCV columns.        *)
TryLoadKorean(ticker_code, period, resp) ==
    CASE resp.kind = "raise"   -> Raised
      [] resp.kind = "none"    -> Returned(NotAvailable)
      [] resp.kind = "empty"   -> Returned(NotAvailable)
      [] resp.kind = "badcols" -> Raised
      [] resp.kind = "rows"    -> Returned(Frame(ticker_code, period, resp.sid))

(* Mutant: no handler, the exception leaves the loader.                    *)
ExceptReraise(tried) == tried

(* except Exception: return None                                           *)
ExceptReturnNone(tried) ==
    IF tried.kind = "exc" THEN Returned(NotAvailable) ELSE tried

load_data(ticker, period, resp) ==
    ExceptReturnNone(TryLoadData(ticker, period, resp))

load_korean_stock_data(ticker_code, period, resp) ==
    ExceptReturnNone(TryLoadKorean(ticker_code, period, resp))

(* st.cache_data: one store per decorated function, keyed by the call's    *)
(* arguments; an entry is served while younger than ttl; whatever the      *)
(* function returns is stored, and a raised exception is not.              *)
CacheKey(fn, ticker, period) == <<fn, ticker, period>>

YahooKeys == {<<"load_data", "^KS11", p>> : p \in {"1mo", "1y"}}
KoreanKeys == {<<"load_korean_stock_data", c, p>> : c \in Codes, p \in {"1mo", "3mo"}}
CacheKeys == YahooKeys \cup KoreanKeys

Entry(v) == [kind |-> "entry", val |-> v, age |-> 0]

(* The entry a store holds under key k, Absent if none.                    *)
At(store, k) == IF k \in DOMAIN store THEN store[k] ELSE Absent

CacheLookup(store, k) ==
    IF At(store, k).kind = "entry" /\ At(store, k).age < TTL THEN At(store, k) ELSE Absent

CacheWrite(store, k, v) ==
    [x \in DOMAIN store \cup {k} |-> IF x = k THEN Entry(v) ELSE store[x]]

(* The decorated call: what it returns, the store after it, whether the   *)
(* provider was called and, if so, whether it delivered rows.              *)
CachedCall(fn, ticker, period, resp) ==
    LET k == CacheKey(fn, ticker, period)
        e == CacheLookup(cache, k)
    IN  IF e.kind = "entry"
        THEN [out |-> Returned(e.val), store |-> cache, called |-> FALSE,
              answer |-> "cached"]
        ELSE LET o == IF fn = "load_data"
                      THEN load_data(ticker, period, resp)
                      ELSE load_korean_stock_data(ticker, period, resp)
             IN  [out |-> o,
                  store |-> IF o.kind = "ret" THEN CacheWrite(cache, k, o.val) ELSE cache,
                  called |-> TRUE,
                  answer |-> IF resp.kind = "rows" THEN "rows" ELSE "failure"]

(* The record of one loader call: what it was asked, whether the provider *)
(* was called, what it returned, and the series last delivered for the key.*)
LoadRecord(fn, ticker, period, c) ==
    LET k == <<fn, ticker, period>>
    IN  /\ fresh' = IF c.called /\ c.out.kind = "ret" /\ c.out.val.kind = "frame"
                    THEN CacheWrite(fresh, k, c.out.val)
                    ELSE fresh
        /\ lastLoad' = [kind |-> "load", key |-> k, prior |-> At(fresh, k),
                        called |-> c.called, answer |-> c.answer, out |-> c.out]

DoLoad(fn, ticker, period, c) ==
    /\ cache' = c.store
    /\ LoadRecord(fn, ticker, period, c)

(* Time passes: entries age, and those that reach the ttl are dropped.     *)
(* The clock is advanced between two symbols of a pass, not inside the     *)
(* handling of one: the loads of one symbol fall within one TickStep.      *)
Aged(store) ==
    [k \in {x \in DOMAIN store : store[x].age + TickStep < TTL} |->
        [store[k] EXCEPT !.age = @ + TickStep]]

(* The same passage of time for the record of delivered series.           *)
GhostAged(delivered) ==
    [k \in {x \in DOMAIN delivered : delivered[x].age + TickStep < TTL} |->
        [delivered[k] EXCEPT !.age = @ + TickStep]]

Tick ==
    /\ pc \in {"idle", "fetch1m"}
    /\ cache' = Aged(cache)
    /\ fresh' = GhostAged(fresh)
    /\ UNCHANGED <<lastLoad, card, passVars, acqVars, callVars>>

-----------------------------------------------------------------------------
(* Callers of the loaders outside the screening pass.                      *)

(* One overview card: load_data, then the latest-versus-previous delta.    *)
(* data.iloc[-2] raises IndexError on a one-bar series.                    *)
CardOutcome(out) ==
    IF out.kind = "exc" THEN "crash"
    ELSE IF out.val.kind = "frame"
         THEN IF Len(Bars(out.val.sid)) >= 2 THEN "delta" ELSE "crash"
         ELSE "load_failed"

OverviewCard(ticker, period) ==
    /\ pc = "idle"
    /\ \E resp \in YahooResponses :
          LET c == CachedCall("load_data", ticker, period, resp)
          IN  /\ DoLoad("load_data", ticker, period, c)
              /\ card' = [ticker |-> ticker, kind |-> CardOutcome(c.out)]
    /\ UNCHANGED <<passVars, acqVars, callVars>>

(* A direct call of load_korean_stock_data.                                *)
LoadKoreanCall(ticker_code, period) ==
    /\ pc = "idle"
    /\ \E resp \in KoreanResponses(PeriodDays(period)) :
          DoLoad("load_korean_stock_data", ticker_code, period,
                 CachedCall("load_korean_stock_data", ticker_code, period, resp))
    /\ UNCHANGED <<card, passVars, acqVars, callVars>>

-----------------------------------------------------------------------------
(* Series arithmetic used by the screening pass.                           *)

Max(a, b) == IF a >= b THEN a ELSE b

(* Python's seq[-k:] and seq[-k:-j] as 1-based index ranges.               *)
TailFrom(n, k) == Max(1, n - k + 1)

RECURSIVE MaxHigh(_, _, _)
MaxHigh(bars, lo, hi) ==
    IF lo >= hi THEN bars[hi].High
    ELSE Max(bars[lo].High, MaxHigh(bars, lo + 1, hi))

RECURSIVE SumVolume(_, _, _)
SumVolume(bars, lo, hi) ==
    IF lo > hi THEN 0 ELSE bars[lo].Volume + SumVolume(bars, lo + 1, hi)

RECURSIVE SumClose(_, _, _)
SumClose(bars, lo, hi) ==
    IF lo > hi THEN 0 ELSE bars[lo].Close + SumClose(bars, lo + 1, hi)

LastClose(bars) == bars[Len(bars)].Close

(* high_20d = data['High'][-20:].max()                                     *)
High20d(bars) == MaxHigh(bars, TailFrom(Len(bars), NewHighWindow), Len(bars))

(* Mutant: the threshold is 0.97.                                          *)
IsNewHighAt97(bars) == LastClose(bars) * 100 >= High20d(bars) * 97

(* latest['Close'] >= high_20d * 0.98                                      *)
IsNewHigh(bars) == LastClose(bars) * 100 >= High20d(bars) * NewHighPct

(* recent_volume_avg = mean of Volume[-5:], prev_volume_avg = mean of      *)
(* Volume[-15:-5]; each is kept as the pair sum, count.                    *)
RecentVolume(bars) ==
    LET lo == TailFrom(Len(bars), RecentVolWindow)
    IN  [sum |-> SumVolume(bars, lo, Len(bars)), n |-> Len(bars) - lo + 1]

PrevVolume(bars) ==
    LET lo == TailFrom(Len(bars), PrevVolStart)
        hi == Len(bars) - RecentVolWindow
    IN  [sum |-> SumVolume(bars, lo, hi), n |-> hi - lo + 1]

(* Mutant: a recent mean of exactly 1.2 x the previous one passes.         *)
IsVolumeIncreasingOrEqual(bars) ==
    LET r == RecentVolume(bars)
        p == PrevVolume(bars)
    IN  r.sum * p.n * 10 >= p.sum * r.n * VolSurgeTenths

(* recent_volume_avg > prev_volume_avg * 1.2                               *)
IsVolumeIncreasing(bars) ==
    LET r == RecentVolume(bars)
        p == PrevVolume(bars)
    IN  r.sum * p.n * 10 > p.sum * r.n * VolSurgeTenths

(* ((recent - prev) / prev) * 100, as the fraction num/den; den = 0 is the *)
(* float division by zero, which yields +inf here (recent > 0).            *)
VolumeIncreasePct(bars) ==
    LET r == RecentVolume(bars)
        p == PrevVolume(bars)
    IN  [num |-> 100 * (r.sum * p.n - p.sum * r.n), den |-> p.sum * r.n]

PctGeq(a, b) ==
    IF a.den = 0 THEN TRUE
    ELSE IF b.den = 0 THEN FALSE
    ELSE a.num * b.den >= b.num * a.den

(* The latest value of Close.rolling(window=60).mean(), as sum over 60.    *)
MA60Sum(bars) == SumClose(bars, Len(bars) - MA60Window + 1, Len(bars))

(* Mutant: a close equal to the average passes.                            *)
AboveOrOnMA60(bars) ==
    /\ Len(bars) >= MA60Window
    /\ LastClose(bars) * MA60Window >= MA60Sum(bars)

(* pd.notna(latest_3m['MA60']) and latest_3m['Close'] > latest_3m['MA60']  *)
AboveMA60(bars) ==
    /\ Len(bars) >= MA60Window
    /\ LastClose(bars) * MA60Window > MA60Sum(bars)

IndicatorCols ==
    {"MA20", "MA50", "MA200", "RSI", "RSI_Signal", "MACD", "MACD_Signal",
     "MACD_Hist", "BB_Upper", "BB_Middle", "BB_Lower", "Stoch_K", "Stoch_D",
     "Ichimoku_Conversion", "Ichimoku_Base", "Ichimoku_A", "Ichimoku_B",
     "Ichimoku_Lagging"}

(* calculate_indicators: a copy of the input with the indicator columns.   *)
calculate_indicators(frame) == [frame EXCEPT !.cols = @ \cup IndicatorCols]

(* frame[col] = values, on the caller's object.                            *)
WithColumn(frame, col) == [frame EXCEPT !.cols = @ \cup {col}]

(* Mutant: the store hands out the object it keeps, so the caller's write  *)
(* lands in the entry.                                                     *)
StoreAliased(store, k, frame) ==
    IF k \in DOMAIN store THEN [store EXCEPT ![k].val = frame] ELSE store

(* What the caller's column assignment does to the store: st.cache_data    *)
(* keeps a pickled copy, so nothing.                                       *)
StoreAfterCallerWrite(store, k, frame) == store

-----------------------------------------------------------------------------
(* calculate_indicators, column by column.  A frame is a series and the    *)
(* names of its derived columns; the values of a column are a sequence as  *)
(* long as the series, each a fraction in lowest terms or NaN.             *)

NaN == [kind |-> "NaN"]

RECURSIVE GCD(_, _)
GCD(a, b) == IF b = 0 THEN a ELSE GCD(b, a % b)

(* The number n/d (n >= 0, d > 0).                                         *)
Num(n, d) == LET g == GCD(n, d) IN [kind |-> "num", n |-> n \div g, d |-> d \div g]

Plus(a, b) ==
    IF a = NaN \/ b = NaN THEN NaN ELSE Num(a.n * b.d + b.n * a.d, a.d * b.d)

RECURSIVE SumOf(_, _, _)
SumOf(col, lo, hi) ==
    IF lo > hi THEN Num(0, 1)
    ELSE IF lo = hi THEN col[lo]
    ELSE LET mid == (lo + hi) \div 2
         IN  Plus(SumOf(col, lo, mid), SumOf(col, mid + 1, hi))

(* col.rolling(window).mean(): NaN until the window is full, and where the *)
(* window holds a NaN.                                                     *)
RollingMean(col, window) ==
    [i \in 1..Len(col) |->
        IF i < window THEN NaN
        ELSE LET s == SumOf(col, i - window + 1, i)
             IN  IF s = NaN THEN NaN ELSE Num(s.n, s.d * window)]

(* col.shift(periods): the value of row i moves to row i + periods.        *)
Shift(col, periods) ==
    [i \in 1..Len(col) |->
        IF i - periods \in 1..Len(col) THEN col[i - periods] ELSE NaN]

(* close_series                                                            *)
CloseSeries(rows) == [i \in 1..Len(rows) |-> Num(rows[i].Close, 1)]

RECURSIVE LowestLow(_, _, _)
LowestLow(rows, lo, hi) ==
    IF lo >= hi THEN rows[hi].Low
    ELSE Min(rows[hi].Low, LowestLow(rows, lo, hi - 1))

RECURSIVE HighestOf(_, _, _)
HighestOf(rows, lo, hi) ==
    IF lo >= hi THEN rows[hi].High
    ELSE Max(rows[hi].High, HighestOf(rows, lo, hi - 1))

(* ta's StochasticOscillator._run: 100 * (close - smin) / (smax - smin),   *)
(* smin and smax the rolling low and high of the window; 0/0 is NaN.       *)
RawStochK(rows, window) ==
    [i \in 1..Len(rows) |->
        IF i < window THEN NaN
        ELSE LET smin == LowestLow(rows, i - window + 1, i)
                 smax == HighestOf(rows, i - window + 1, i)
             IN  IF smax = smin THEN NaN
                 ELSE Num(100 * (rows[i].Close - smin), smax - smin)]

(* df['MA20'], df['MA50'], df['MA200']                                     *)
MA(rows, window) == RollingMean(CloseSeries(rows), window)

(* df['Stoch_K'] = stoch.stoch(): ta returns the raw %K of the window      *)
Stoch_K(rows) == RawStochK(rows, StochWindow)

(* df['Stoch_D'] = stoch.stoch_signal(): ta returns the rolling mean of    *)
(* the raw %K over smooth_window                                           *)
Stoch_D(rows) == RollingMean(RawStochK(rows, StochWindow), StochSmooth)

(* Mutant: the closes are shifted to later rows.                           *)
LaggingShiftedForward(rows) == Shift(CloseSeries(rows), LagShift)

(* Mutant: the span is the close of the same bar.                          *)
LaggingUnshifted(rows) == Shift(CloseSeries(rows), 0)

(* df['Ichimoku_Lagging'] = close_series.shift(-26)                        *)
Ichimoku_Lagging(rows) == Shift(CloseSeries(rows), 0 - LagShift)

(* The values of the columns of calculate_indicators(data) that are        *)
(* followed here.                                                          *)
IndicatorValues(rows) ==
    [MA20 |-> MA(rows, MA20Window),
     MA50 |-> MA(rows, MA50Window),
     MA200 |-> MA(rows, MA200Window),
     Stoch_K |-> Stoch_K(rows),
     Stoch_D |-> Stoch_D(rows),
     Ichimoku_Lagging |-> Ichimoku_Lagging(rows)]

(* Mutant: df = data, the columns are written to the caller's series.      *)
CallerSeriesAliased(series) == calculate_indicators(series)

(* df = data.copy(): the caller's series after the call.                   *)
CallerSeriesAfter(series) == series

(* The series handed to calculate_indicators: OHLC rows of three shapes    *)
(* (a four-bar cycle, a rising trend with a varying range, a flat line     *)
(* whose high, low and close coincide), of lengths around every window.    *)
Candle(h, l, c) == [High |-> h, Low |-> l, Close |-> c]

Shaped(shape, n) ==
    [i \in 1..n |->
        CASE shape = "cycle" -> Candle(102 + 3 * (i % 4), 98 + 3 * (i % 4), 100 + 3 * (i % 4))
          [] shape = "trend" -> Candle(51 + 2 * i + (i % 3) + (i % 2), 49 + 2 * i + (i % 3),
                                       50 + 2 * i + (i % 3))
          [] shape = "flat"  -> Candle(100, 100, 100)]

Lengths ==
    {1, 2, 9, 10, 11, 14, 15, 16, 19, 20, 21, 26, 27, 28, 49, 50, 51, 60, 199, 200,
     LongSeries}

Series(shape, n, cols) == [kind |-> "frame", rows |-> Shaped(shape, n), cols |-> cols]

IndicatorInputs ==
    {Series(shape, n, {}) : shape \in {"cycle", "trend"}, n \in Lengths}
    \cup {Series("flat", n, {}) : n \in {1, 16, 27}}
    \cup {Series("cycle", n, {"MA60"}) : n \in {60, 61, LongSeries}}

(* close_series = df['Close'].squeeze(): pandas squeezes a column of one    *)
(* element to a scalar, whatever its type, and a scalar has no rolling().  *)
SqueezedToScalar(rows) == Len(rows) = 1

(* The call as a whole: the AttributeError of the first rolling() on a     *)
(* scalar close, or the frame with its columns.                            *)
CalculateIndicatorsCall(series) ==
    IF SqueezedToScalar(series.rows) THEN Raised
    ELSE [kind |-> "frame",
          frame |-> calculate_indicators(series),
          values |-> IndicatorValues(series.rows)]

(* A call of calculate_indicators on the caller's series.                  *)
ComputeIndicators ==
    /\ series_in # NotAvailable
    /\ frame_out = NotAvailable
    /\ frame_out' = CalculateIndicatorsCall(series_in)
    /\ series_in' = CallerSeriesAfter(series_in)
    /\ UNCHANGED <<cache, fresh, lastLoad, card, passVars, acqVars, eps_lookup,
                   frame_again>>

(* A second call on the same series.                                       *)
ComputeAgain ==
    /\ frame_out # NotAvailable
    /\ frame_again = NotAvailable
    /\ frame_again' = CalculateIndicatorsCall(series_in)
    /\ series_in' = CallerSeriesAfter(series_in)
    /\ UNCHANGED <<cache, fresh, lastLoad, card, passVars, acqVars, eps_lookup,
                   frame_out>>

(* The technical summary of an overview card, its lagging-span lines.      *)
(* The Bollinger bands of the latest bar as ta computes them, from the     *)
(* last 18 closes: middle = S / 18 and deviation = sqrt(18 Q - S^2) / 18   *)
(* (ddof = 0), S the sum of the closes and Q the sum of their squares;     *)
(* NaN while the window is not full.                                       *)
RECURSIVE CloseSum(_, _, _)
CloseSum(rows, lo, hi) ==
    IF lo > hi THEN 0 ELSE rows[hi].Close + CloseSum(rows, lo, hi - 1)

RECURSIVE CloseSquareSum(_, _, _)
CloseSquareSum(rows, lo, hi) ==
    IF lo > hi THEN 0
    ELSE rows[hi].Close * rows[hi].Close + CloseSquareSum(rows, lo, hi - 1)

LatestBands(rows) ==
    LET n == Len(rows)
    IN  IF n < BBWindow THEN NaN
        ELSE LET S == CloseSum(rows, n - BBWindow + 1, n)
                 Q == CloseSquareSum(rows, n - BBWindow + 1, n)
             IN  [kind |-> "bands", S |-> S, D |-> BBWindow * Q - S * S]

(* x > bb_upper and x < bb_lower for a number x = n/d, the bands being     *)
(* (S +- 2 sqrt(D)) / 18; a comparison with NaN is False.                  *)
AboveUpperBand(x, bands) ==
    /\ bands # NaN
    /\ LET t == BBWindow * x.n - bands.S * x.d
       IN  t > 0 /\ t * t > BBDev * BBDev * x.d * x.d * bands.D

BelowLowerBand(x, bands) ==
    /\ bands # NaN
    /\ LET t == BBWindow * x.n - bands.S * x.d
       IN  t < 0 /\ t * t > BBDev * BBDev * x.d * x.d * bands.D

(* if pd.notna(lagging_span): one of five lines is written; otherwise none.*)
LaggingSpanLine(out) ==
    LET rows == out.frame.rows
        lagging_span == out.values.Ichimoku_Lagging[Len(rows)]
        bands == LatestBands(rows)
        current_price == rows[Len(rows)].Close
    IN  IF lagging_span = NaN THEN "nothing"
        ELSE IF AboveUpperBand(lagging_span, bands) THEN "above upper band"
        ELSE IF BelowLowerBand(lagging_span, bands) THEN "below lower band"
        ELSE IF lagging_span.n > current_price * lagging_span.d THEN "above price"
        ELSE IF lagging_span.n < current_price * lagging_span.d THEN "below price"
        ELSE "equals price"

(* The summary of the card whose loaded series is series_in, read from the *)
(* latest bar of the frame calculate_indicators returned for it.           *)
TechnicalSummary ==
    /\ frame_out # NotAvailable
    /\ frame_out.kind = "frame"
    /\ card.kind = "none"
    /\ card' = [ticker |-> "^KS11", kind |-> "summary",
                lagging |-> LaggingSpanLine(frame_out)]
    /\ UNCHANGED <<cache, fresh, lastLoad, passVars, acqVars, callVars>>

-----------------------------------------------------------------------------
(* get_operating_income_change.  The input is what the fundamentals        *)
(* provider answers: whether any of the 90 probed days has rows, whether   *)
(* they carry an EPS column, and the answer for the day one year ago.      *)

(* probe: what the probed days answer ("missing": None or no rows on every *)
(* day, "raise": every query raises, "rows": rows first on day first_day,  *)
(* counted back from today, the earlier days missing or raising).          *)
Fundamentals(first_day, current_eps, prev) ==
    [probe |-> "rows", first_day |-> first_day, eps_col |-> TRUE,
     current_eps |-> current_eps, prev |-> prev]

FundInputs ==
    {[probe |-> "missing"],
     [probe |-> "raise"],
     [probe |-> "rows", first_day |-> 0, eps_col |-> FALSE],
     Fundamentals(ProbeDays, 150, [kind |-> "rows", eps_col |-> TRUE, eps |-> 100]),
     Fundamentals(0, 150, [kind |-> "raise"]),
     Fundamentals(0, 150, [kind |-> "empty"]),
     Fundamentals(0, 150, [kind |-> "rows", eps_col |-> FALSE]),
     Fundamentals(0, 150, [kind |-> "rows", eps_col |-> TRUE, eps |-> 0]),
     Fundamentals(ProbeDays - 1, 150, [kind |-> "rows", eps_col |-> TRUE, eps |-> 100]),
     Fundamentals(3, 0 - 150, [kind |-> "rows", eps_col |-> TRUE, eps |-> 0 - 300])}

Abs(x) == IF x < 0 THEN 0 - x ELSE x

(* round(x, 1) of the quotient n/d (d > 0), in tenths, ties to even.       *)
RoundTenths(n, d) ==
    LET q == (10 * n) \div d
        r == (10 * n) % d
    IN  IF 2 * r > d \/ (2 * r = d /\ q % 2 = 1) THEN q + 1 ELSE q

get_operating_income_change(fund) ==
    IF fund.probe # "rows" THEN NotAvailable
    ELSE IF fund.first_day >= ProbeDays THEN NotAvailable
    ELSE IF ~fund.eps_col THEN NotAvailable
    ELSE IF fund.prev.kind # "rows" THEN NotAvailable
    ELSE IF ~fund.prev.eps_col THEN NotAvailable
    ELSE IF fund.prev.eps = 0 THEN NotAvailable
    ELSE [kind |-> "pct",
          tenths |-> RoundTenths((fund.current_eps - fund.prev.eps) * 100,
                                 Abs(fund.prev.eps))]

(* A call of get_operating_income_change on its own.                       *)
EpsLookupCall ==
    /\ pc = "idle"
    /\ \E fund \in FundInputs :
          eps_lookup' = [kind |-> "lookup", fund |-> fund,
                         out |-> get_operating_income_change(fund)]
    /\ UNCHANGED <<cache, fresh, lastLoad, card, passVars, acqVars,
                   series_in, frame_out, frame_again>>

-----------------------------------------------------------------------------
(* new_high_stocks.sort(key=lambda x: x[4], reverse=True): a stable sort,  *)
(* descending by volume_increase_pct.                                      *)

RECURSIVE InsertDesc(_, _)
InsertDesc(sorted, x) ==
    IF sorted = <<>> THEN <<x>>
    ELSE IF PctGeq(sorted[1].volume_increase_pct, x.volume_increase_pct)
         THEN <<sorted[1]>> \o InsertDesc(Tail(sorted), x)
         ELSE <<x>> \o sorted

(* Mutant: sorted ascending and then reversed, which reverses ties.        *)
RECURSIVE InsertAsc(_, _)
InsertAsc(sorted, x) ==
    IF sorted = <<>> THEN <<x>>
    ELSE IF PctGeq(x.volume_increase_pct, sorted[1].volume_increase_pct)
         THEN <<sorted[1]>> \o InsertAsc(Tail(sorted), x)
         ELSE <<x>> \o sorted

RECURSIVE SortAsc(_)
SortAsc(seq) ==
    IF seq = <<>> THEN <<>>
    ELSE InsertAsc(SortAsc(SubSeq(seq, 1, Len(seq) - 1)), seq[Len(seq)])

SortAscThenReverse(seq) ==
    LET up == SortAsc(seq)
    IN  [i \in 1..Len(up) |-> up[Len(up) + 1 - i]]

RECURSIVE SortDesc(_)
SortDesc(seq) ==
    IF seq = <<>> THEN <<>>
    ELSE InsertDesc(SortDesc(SubSeq(seq, 1, Len(seq) - 1)), seq[Len(seq)])

-----------------------------------------------------------------------------
(* screen_stocks_by_market: the loop over symbols_dict, one step per        *)
(* stage of the cascade.                                                    *)

Total == Len(symbols_dict)
Current == symbols_dict[idx + 1]
Step(name) == trace' = [trace EXCEPT ![idx + 1] = Append(@, name)]

(* continue: on to the next symbol, or out of the loop.                    *)
Continue(p, e) ==
    /\ processed' = p
    /\ errors' = e
    /\ idx' = idx + 1
    /\ pc' = IF idx + 1 < Total THEN "fetch1m" ELSE "sort"
    /\ data' = NotAvailable
    /\ data_3m' = NotAvailable
    /\ UNCHANGED <<symbols_dict, acqVars, callVars>>

(* Mutant: the early exit also counts the symbol as processed.             *)
SkipUnloadableAlsoProcessed == Continue(processed + 1, errors + 1)

(* if data is None or data.empty or len(data) < 20: errors += 1; continue  *)
SkipUnloadable == Continue(processed, errors + 1)

(* Mutant: the handler lets the exception out of the loop.                 *)
OnCandidateExceptionPropagates ==
    /\ pc' = "aborted"
    /\ UNCHANGED <<symbols_dict, idx, processed, errors, data, data_3m, acqVars, callVars>>

(* except Exception: errors += 1; continue                                 *)
OnCandidateException == Continue(processed, errors + 1)

(* Mutant: the symbol leaves the loop body without being counted.          *)
LeaveUncounted == Continue(processed, errors)

(* processed += 1, then continue or the end of the loop body               *)
CountProcessed == Continue(processed + 1, errors)

Goto(next) ==
    /\ pc' = next
    /\ UNCHANGED <<symbols_dict, idx, processed, errors, acqVars, callVars>>

(* The locals of the loop, set up over the acquired universe.              *)
BeginLoop(universe) ==
    /\ symbols_dict' = universe
    /\ pc' = IF Len(universe) > 0 THEN "fetch1m" ELSE "sort"
    /\ idx' = 0
    /\ new_high_stocks' = <<>>
    /\ processed' = 0
    /\ errors' = 0
    /\ data' = NotAvailable
    /\ data_3m' = NotAvailable
    /\ trace' = [i \in 1..Len(universe) |-> <<>>]
    /\ shown' = 0
    /\ probes' = <<>>
    /\ market_cap_df' = NotAvailable
    /\ UNCHANGED <<cache, fresh, lastLoad, card, callVars>>

(* A KOSPI screening whose acquisition yielded the given universe from a   *)
(* listing.                                                                *)
StartPass(universe) ==
    /\ pc = "idle"
    /\ market_type' = "KOSPI"
    /\ origin' = [kind |-> "listing"]
    /\ BeginLoop(universe)

(* The screening is called for a market: the acquisition begins.           *)
StartScreen(market) ==
    /\ pc = "idle"
    /\ pc' = "probe"
    /\ market_type' = market
    /\ probes' = <<>>
    /\ market_cap_df' = NotAvailable
    /\ origin' = [kind |-> "none"]
    /\ UNCHANGED <<cache, fresh, lastLoad, card, symbols_dict, idx, new_high_stocks,
                   processed, errors, data, data_3m, trace, shown, callVars>>

(* One pass of the probe loop for day len(probes): the listing query, the  *)
(* test of its answer, the break.  After the last pass without a listing,  *)
(* the raise that the outer handler catches.                               *)
Probe ==
    /\ pc = "probe"
    /\ \E answer \in CapResponses(Len(probes)) :
          LET found == HasMarketCap(answer)
              df == IF found
                    THEN [kind |-> "listing", day |-> Len(probes), rows |-> answer.rows]
                    ELSE market_cap_df
          IN  /\ probes' = Append(probes, [day |-> Len(probes), kind |-> ProbeKind(answer)])
              /\ market_cap_df' = df
              /\ pc' = AfterProbe(found, Len(probes) + 1, df)
    /\ UNCHANGED <<cache, fresh, lastLoad, card, symbols_dict, idx, new_high_stocks,
                   processed, errors, data, data_3m, trace, shown, callVars,
                   market_type, origin>>

(* The listing sorted by capitalization, its top 400, the name of each      *)
(* ticker (a lookup that raises skips the ticker), then the loop's set-up. *)
Names ==
    /\ pc = "names"
    /\ \E unnamed \in SUBSET Tickers(market_cap_df.rows) :
          BeginLoop(NameTickers(top_tickers(market_cap_df.rows), unnamed,
                                Suffix(market_type)))
    /\ origin' = [kind |-> "listing"]
    /\ UNCHANGED market_type

(* except Exception: the hardcoded list of the market, then the loop's     *)
(* set-up.                                                                 *)
Fallback ==
    /\ pc = "fallback"
    /\ BeginLoop(FallbackList(market_type))
    /\ origin' = [kind |-> "fallback"]
    /\ UNCHANGED market_type

(* Mutant: the progress shows the symbols already finished.                *)
ProgressShownAfter(i) == i

(* status_text.text(... ({idx+1}/{total}) ...), progress((idx + 1) / total) *)
ProgressShown(i) == i + 1

(* The progress update, then the 1-month load and its test.                *)
Fetch1m ==
    /\ pc = "fetch1m"
    /\ shown' = ProgressShown(idx)
    /\ Step("fetch1m")
    /\ \E resp \in KoreanResponses(PeriodDays("1mo")) :
          LET code == TickerCode(Current.symbol)
              c == CachedCall("load_korean_stock_data", code, "1mo", resp)
          IN  /\ DoLoad("load_korean_stock_data", code, "1mo", c)
              /\ IF c.out.kind = "exc" THEN OnCandidateException
                 ELSE IF c.out.val.kind # "frame"
                         \/ Len(Bars(c.out.val.sid)) < MinBars1m
                      THEN SkipUnloadable
                      ELSE /\ Goto("newhigh")
                           /\ data' = c.out.val
                           /\ UNCHANGED data_3m
    /\ UNCHANGED <<card, new_high_stocks>>

(* The new-high filter.                                                    *)
NewHigh ==
    /\ pc = "newhigh"
    /\ Step("newhigh")
    /\ IF Garbled(data.sid) THEN OnCandidateException
       ELSE IF ~IsNewHigh(Bars(data.sid)) THEN CountProcessed
       ELSE Goto("volume") /\ UNCHANGED <<data, data_3m>>
    /\ UNCHANGED <<cache, fresh, lastLoad, card, new_high_stocks, shown>>

(* Mutant: a symbol that fails the filter is not skipped.                  *)
VolumeFallsThrough ==
    /\ pc = "volume"
    /\ Step("volume")
    /\ Goto("fetch3m") /\ UNCHANGED <<data, data_3m>>
    /\ UNCHANGED <<cache, fresh, lastLoad, card, new_high_stocks, shown>>

(* The volume-surge filter.                                                *)
Volume ==
    /\ pc = "volume"
    /\ Step("volume")
    /\ IF ~IsVolumeIncreasing(Bars(data.sid)) THEN CountProcessed
       ELSE Goto("fetch3m") /\ UNCHANGED <<data, data_3m>>
    /\ UNCHANGED <<cache, fresh, lastLoad, card, new_high_stocks, shown>>

(* The 3-month load, its test, and the MA60 column written to the loaded   *)
(* series.  A series that fails the test falls through to processed += 1.  *)
Fetch3m ==
    /\ pc = "fetch3m"
    /\ Step("fetch3m")
    /\ \E resp \in KoreanResponses(PeriodDays("3mo")) :
          LET code == TickerCode(Current.symbol)
              c == CachedCall("load_korean_stock_data", code, "3mo", resp)
              k == CacheKey("load_korean_stock_data", code, "3mo")
          IN  /\ LoadRecord("load_korean_stock_data", code, "3mo", c)
              /\ IF c.out.kind = "exc"
                 THEN cache' = c.store /\ OnCandidateException
                 ELSE IF c.out.val.kind # "frame"
                         \/ Len(Bars(c.out.val.sid)) < MinBars3m
                 THEN cache' = c.store /\ CountProcessed
                 ELSE IF Garbled(c.out.val.sid)
                 THEN cache' = c.store /\ OnCandidateException
                 ELSE /\ cache' = StoreAfterCallerWrite(c.store, k,
                                      WithColumn(c.out.val, "MA60"))
                      /\ data_3m' = WithColumn(c.out.val, "MA60")
                      /\ Goto("trend")
                      /\ UNCHANGED data
    /\ UNCHANGED <<card, new_high_stocks, shown>>

(* The trend filter.                                                       *)
Trend ==
    /\ pc = "trend"
    /\ Step("trend")
    /\ IF AboveMA60(Bars(data_3m.sid)) THEN Goto("qualify") /\ UNCHANGED <<data, data_3m>>
       ELSE CountProcessed
    /\ UNCHANGED <<cache, fresh, lastLoad, card, new_high_stocks, shown>>

(* A survivor: the indicators, the EPS lookup, the append.                 *)
Candidate(fund) ==
    [name |-> Current.name,
     symbol |-> Current.symbol,
     data_with_indicators |-> WithColumn(calculate_indicators(data_3m), "MA60"),
     latest_with_indicators |-> [Close |-> LastClose(Bars(data_3m.sid))],
     volume_increase_pct |-> VolumeIncreasePct(Bars(data.sid)),
     eps_change |-> get_operating_income_change(fund)]

(* Mutant: a candidate without an EPS change is dropped.                   *)
AppendOnlyWithEps(list, candidate) ==
    IF candidate.eps_change = NotAvailable THEN list ELSE Append(list, candidate)

(* new_high_stocks.append((name, symbol, ..., eps_change))                 *)
AppendCandidate(list, candidate) == Append(list, candidate)

Qualify ==
    /\ pc = "qualify"
    /\ trace' = [trace EXCEPT ![idx + 1] = @ \o <<"indicators", "eps">>]
    /\ \E fund \in FundInputs :
          new_high_stocks' = AppendCandidate(new_high_stocks, Candidate(fund))
    /\ CountProcessed
    /\ UNCHANGED <<cache, fresh, lastLoad, card, shown>>

(* After the loop: the progress display is emptied, then the sort and the *)
(* return.                                                                 *)
Sort ==
    /\ pc = "sort"
    /\ shown' = 0
    /\ new_high_stocks' = SortDesc(new_high_stocks)
    /\ pc' = "done"
    /\ UNCHANGED <<cache, fresh, lastLoad, card, symbols_dict, idx, processed,
                   errors, data, data_3m, trace, acqVars, callVars>>

(* The caller has rendered the returned list; the pass's locals are gone.  *)
Finish ==
    /\ pc = "done"
    /\ pc' = "idle"
    /\ symbols_dict' = <<>>
    /\ idx' = 0
    /\ new_high_stocks' = <<>>
    /\ processed' = 0
    /\ errors' = 0
    /\ data' = NotAvailable
    /\ data_3m' = NotAvailable
    /\ trace' = <<>>
    /\ shown' = 0
    /\ lastLoad' = [kind |-> "none"]
    /\ market_type' = "none"
    /\ origin' = [kind |-> "none"]
    /\ UNCHANGED <<cache, fresh, card, probes, market_cap_df, callVars>>

-----------------------------------------------------------------------------
InitExceptSeries ==
    /\ cache = [k \in {} |-> Absent]
    /\ fresh = [k \in {} |-> Absent]
    /\ lastLoad = [kind |-> "none"]
    /\ card = [kind |-> "none"]
    /\ pc = "idle"
    /\ symbols_dict = <<>>
    /\ idx = 0
    /\ new_high_stocks = <<>>
    /\ processed = 0
    /\ errors = 0
    /\ data = NotAvailable
    /\ data_3m = NotAvailable
    /\ trace = <<>>
    /\ shown = 0
    /\ market_type = "none"
    /\ probes = <<>>
    /\ market_cap_df = NotAvailable
    /\ origin = [kind |-> "none"]
    /\ eps_lookup = [kind |-> "none"]
    /\ frame_out = NotAvailable
    /\ frame_again = NotAvailable

Init ==
    /\ InitExceptSeries
    /\ series_in = NotAvailable

(* The loaders on their own: overview cards and direct loader calls.       *)
LoaderNext ==
    \/ \E p \in {"1mo", "1y"} : OverviewCard("^KS11", p)
    \/ LoadKoreanCall("000001", "3mo")
    \/ Tick

LoaderSpec == Init /\ [][LoaderNext]_vars

(* The screening pass, run again and again while time passes.              *)
Next ==
    \/ StartPass(SmallUniverse)
    \/ Fetch1m
    \/ NewHigh
    \/ Volume
    \/ Fetch3m
    \/ Trend
    \/ Qualify
    \/ Sort
    \/ Finish
    \/ Tick

Spec == Init /\ [][Next]_vars

(* One screening pass over the three-symbol universe, from a cold cache.   *)
PassNext ==
    \/ StartPass(Universe)
    \/ Fetch1m
    \/ NewHigh
    \/ Volume
    \/ Fetch3m
    \/ Trend
    \/ Qualify
    \/ Sort

PassSpec == Init /\ [][PassNext]_vars

(* One screening of either market, from the acquisition of the universe to *)
(* the returned list, from a cold cache.                                   *)
ScreenNext ==
    \/ \E market \in Markets : StartScreen(market)
    \/ Probe
    \/ Names
    \/ Fallback
    \/ Fetch1m
    \/ NewHigh
    \/ Volume
    \/ Fetch3m
    \/ Trend
    \/ Qualify
    \/ Sort

ScreenSpec == Init /\ [][ScreenNext]_vars

(* One pass over the two-symbol universe from a cold cache, and calls of   *)
(* the EPS lookup on its own.                                               *)
CandidateNext ==
    \/ EpsLookupCall
    \/ StartPass(SmallUniverse)
    \/ Fetch1m
    \/ NewHigh
    \/ Volume
    \/ Fetch3m
    \/ Trend
    \/ Qualify
    \/ Sort

CandidateSpec == Init /\ [][CandidateNext]_vars

(* calculate_indicators on its own: a series is given, the function is     *)
(* called on it twice, and an overview card shows its summary.             *)
IndicatorInit ==
    /\ InitExceptSeries
    /\ series_in \in IndicatorInputs

IndicatorNext ==
    \/ ComputeIndicators
    \/ ComputeAgain
    \/ TechnicalSummary

IndicatorSpec == IndicatorInit /\ [][IndicatorNext]_vars

(* The script runs the pass to its end: every provider call comes back.    *)
PassFairSpec == PassSpec /\ WF_vars(PassNext)

-----------------------------------------------------------------------------
(* Vocabulary of the properties, stated on the data, apart from the        *)
(* operators of the pass.                                                  *)

FullCascade ==
    <<"fetch1m", "newhigh", "volume", "fetch3m", "trend", "indicators", "eps">>

(* In one pass from a cold cache, the store holds what the pass loaded.    *)
Loaded(i, period) ==
    At(cache, <<"load_korean_stock_data", TickerCode(symbols_dict[i].symbol), period>>)

IsSeries(e) == e.kind = "entry" /\ e.val.kind = "frame"
IsFailure(e) == e.kind = "entry" /\ e.val = NotAvailable

HighestHigh(bars, n) ==
    LET from == IF Len(bars) > n THEN Len(bars) - n + 1 ELSE 1
        highs == {bars[i].High : i \in from..Len(bars)}
    IN  CHOOSE m \in highs : \A h \in highs : h <= m

(* latest close at least 0.98 x the highest high of the trailing 20 bars   *)
NearHigh(bars) == 100 * bars[Len(bars)].Close >= 98 * HighestHigh(bars, 20)

InResults(i) ==
    \E j \in 1..Len(new_high_stocks) : new_high_stocks[j].name = symbols_dict[i].name

Visits(i) == Cardinality({j \in 1..Len(trace[i]) : trace[i][j] = "fetch1m"})

RECURSIVE TotalVolume(_, _)
TotalVolume(bars, at) ==
    IF at = {} THEN 0
    ELSE LET i == CHOOSE x \in at : TRUE
         IN  bars[i].Volume + TotalVolume(bars, at \ {i})

RECURSIVE TotalClose(_, _)
TotalClose(bars, at) ==
    IF at = {} THEN 0
    ELSE LET i == CHOOSE x \in at : TRUE
         IN  bars[i].Close + TotalClose(bars, at \ {i})

Recent5(bars) == TotalVolume(bars, (Len(bars) - 4)..Len(bars))
Previous10(bars) == TotalVolume(bars, (Len(bars) - 14)..(Len(bars) - 5))

(* mean volume of the last 5 bars > 1.2 x mean volume of the 10 before     *)
Surge(bars) == 10 * 10 * Recent5(bars) > 12 * 5 * Previous10(bars)

(* latest close > mean of the last 60 closes                               *)
AboveAverage60(bars) ==
    /\ Len(bars) >= 60
    /\ 60 * bars[Len(bars)].Close > TotalClose(bars, (Len(bars) - 59)..Len(bars))

IsPrefix(s, t) == Len(s) <= Len(t) /\ \A k \in 1..Len(s) : s[k] = t[k]

HasBars(e, least) == IsSeries(e) /\ Len(Bars(e.val.sid)) >= least

Usable(e, least) == HasBars(e, least) /\ ~Garbled(e.val.sid)

PositionOf(name) == CHOOSE i \in 1..Len(symbols_dict) : symbols_dict[i].name = name

-----------------------------------------------------------------------------
(* C1.  Three symbols: A's fetch fails, B fails the new-high filter, C      *)
(* passes every filter.                                                    *)

C1_Scenario ==
    /\ pc = "done"
    /\ symbols_dict = Universe
    /\ trace[1] = <<"fetch1m">> /\ IsFailure(Loaded(1, "1mo"))
    /\ trace[2] = <<"fetch1m", "newhigh">>
    /\ IsSeries(Loaded(2, "1mo"))
    /\ ~Garbled(Loaded(2, "1mo").val.sid)
    /\ ~NearHigh(Bars(Loaded(2, "1mo").val.sid))
    /\ trace[3] = FullCascade

(* C1 as stated: in that pass exactly one candidate (C) is returned, the   *)
(* processed count is 3 and the error count is 1.                          *)
C1_AsStated ==
    C1_Scenario =>
        /\ Len(new_high_stocks) = 1
        /\ new_high_stocks[1].name = "C"
        /\ processed = 3
        /\ errors = 1

(* C1, amended: in that pass exactly one candidate (C) is returned, the    *)
(* processed count is 2 (B and C; the symbol whose fetch failed is counted *)
(* as an error only) and the error count is 1.                             *)
C1_OneCandidateTwoProcessedOneError ==
    C1_Scenario =>
        /\ Len(new_high_stocks) = 1
        /\ new_high_stocks[1].name = "C"
        /\ processed = 2
        /\ errors = 1

C1_Witness ==
    /\ C1_Scenario
    /\ Len(new_high_stocks) = 1

-----------------------------------------------------------------------------
(* C2.  A screening pass never aborts because of one symbol: whatever the  *)
(* loader, the filters, the indicator computation and the EPS lookup do    *)
(* for a symbol, the pass stays inside its loop, every symbol of the       *)
(* universe is visited exactly once, in order, and the pass ends by        *)
(* returning its result list.                                              *)

C2_OnTrack ==
    /\ pc \in {"idle", "fetch1m", "newhigh", "volume", "fetch3m", "trend",
                "qualify", "sort", "done"}
    /\ \A i \in 1..Len(symbols_dict) :
          Visits(i) = IF i <= idx \/ (i = idx + 1 /\ pc # "fetch1m") THEN 1 ELSE 0
    /\ pc \in {"sort", "done"} => idx = Len(symbols_dict)
    /\ pc \in {"fetch1m", "newhigh", "volume", "fetch3m", "trend", "qualify"}
          => idx < Len(symbols_dict)

C2_NeverAborts ==
    /\ []C2_OnTrack
    /\ (pc # "idle") ~> (pc = "done")

(* A pass that ended although a symbol raised and another failed to load.  *)
C2_Witness ==
    /\ pc = "done"
    /\ \E i \in 1..Len(symbols_dict) :
          /\ trace[i] = <<"fetch1m", "newhigh">>
          /\ IsSeries(Loaded(i, "1mo"))
          /\ Garbled(Loaded(i, "1mo").val.sid)
    /\ \E i \in 1..Len(symbols_dict) : IsFailure(Loaded(i, "1mo"))
    /\ trace[Len(symbols_dict)] = FullCascade

-----------------------------------------------------------------------------
(* C3.  Every per-candidate failure (a failed fetch or insufficient        *)
(* history at the 1-month stage, a failed fetch or fewer than 60 bars at   *)
(* the 3-month stage, an exception while handling the candidate)           *)
(* increments the error counter by exactly one, and the candidate is       *)
(* absent from the results.                                                *)

FailedAt1m(i) ==
    /\ Len(trace[i]) >= 1
    /\ \/ IsFailure(Loaded(i, "1mo"))
       \/ IsSeries(Loaded(i, "1mo")) /\ Len(Bars(Loaded(i, "1mo").val.sid)) < 20

FailedAt3m(i) ==
    /\ Len(trace[i]) >= 4
    /\ \/ IsFailure(Loaded(i, "3mo"))
       \/ IsSeries(Loaded(i, "3mo")) /\ Len(Bars(Loaded(i, "3mo").val.sid)) < 60

RaisedWhileHandling(i) ==
    \/ /\ Len(trace[i]) >= 2
       /\ IsSeries(Loaded(i, "1mo"))
       /\ Garbled(Loaded(i, "1mo").val.sid)
    \/ /\ Len(trace[i]) >= 4
       /\ IsSeries(Loaded(i, "3mo"))
       /\ Len(Bars(Loaded(i, "3mo").val.sid)) >= 60
       /\ Garbled(Loaded(i, "3mo").val.sid)

CandidateFailed(i) == FailedAt1m(i) \/ FailedAt3m(i) \/ RaisedWhileHandling(i)

C3_EveryFailureCounted ==
    pc = "done" =>
        /\ errors = Cardinality({i \in 1..Len(symbols_dict) : CandidateFailed(i)})
        /\ \A i \in 1..Len(symbols_dict) : CandidateFailed(i) => ~InResults(i)

-----------------------------------------------------------------------------
(* C4.  As stated: no candidate whose latest close is below 0.98 x the     *)
(* highest high of its trailing 20 bars is present in the results, for the *)
(* bars held in the candidate's returned frame.                            *)

C4_AsStated ==
    \A j \in 1..Len(new_high_stocks) :
        NearHigh(Bars(new_high_stocks[j].data_with_indicators.sid))

(* C4, amended: a candidate is appended to the results only if the latest  *)
(* close of the 1-month series loaded for it in this pass is at least      *)
(* 0.98 x the highest high of that series' trailing 20 bars.               *)
C4_FilteredOnOneMonthSeries ==
    [][Len(new_high_stocks') > Len(new_high_stocks) =>
          /\ data.kind = "frame"
          /\ data.ticker = TickerCode(Current.symbol)
          /\ data.period = "1mo"
          /\ NearHigh(Bars(data.sid))]_vars

(* A returned candidate whose frame is below the threshold.                *)
C4_Witness ==
    /\ pc = "done"
    /\ \E j \in 1..Len(new_high_stocks) :
          ~NearHigh(Bars(new_high_stocks[j].data_with_indicators.sid))

-----------------------------------------------------------------------------
(* C5.  For each symbol the steps run in the order 1-month fetch, new-high *)
(* filter, volume-surge filter, 3-month fetch, trend filter, indicator     *)
(* computation, EPS lookup, and stop at the first step that fails: the     *)
(* 3-month fetch is issued only for symbols that passed the new-high and   *)
(* the volume-surge filter, the indicators and the EPS lookup only for     *)
(* symbols that passed all three filters.                                  *)

StoppedWhereItFailed(i) ==
    CASE Len(trace[i]) = 1 -> ~HasBars(Loaded(i, "1mo"), 20)
      [] Len(trace[i]) = 2 -> \/ Garbled(Loaded(i, "1mo").val.sid)
                              \/ ~NearHigh(Bars(Loaded(i, "1mo").val.sid))
      [] Len(trace[i]) = 3 -> ~Surge(Bars(Loaded(i, "1mo").val.sid))
      [] Len(trace[i]) = 4 -> ~Usable(Loaded(i, "3mo"), 60)
      [] Len(trace[i]) = 5 -> ~AboveAverage60(Bars(Loaded(i, "3mo").val.sid))
      [] Len(trace[i]) = 7 -> TRUE
      [] OTHER -> FALSE

C5_CascadeInOrder ==
    \A i \in 1..Len(symbols_dict) :
        /\ IsPrefix(trace[i], FullCascade)
        /\ Len(trace[i]) >= 4 =>
              /\ Usable(Loaded(i, "1mo"), 20)
              /\ NearHigh(Bars(Loaded(i, "1mo").val.sid))
              /\ Surge(Bars(Loaded(i, "1mo").val.sid))
        /\ Len(trace[i]) >= 6 =>
              /\ Usable(Loaded(i, "3mo"), 60)
              /\ AboveAverage60(Bars(Loaded(i, "3mo").val.sid))
        /\ i <= idx => StoppedWhereItFailed(i)

(* A pass in which one symbol stopped at each of the two cheap filters and *)
(* one went through the whole cascade.                                     *)
C5_Witness ==
    /\ pc = "done"
    /\ \E i \in 1..Len(symbols_dict) : Len(trace[i]) = 2
    /\ \E i \in 1..Len(symbols_dict) : Len(trace[i]) = 3
    /\ \E i \in 1..Len(symbols_dict) : Len(trace[i]) = 7

-----------------------------------------------------------------------------
(* C6.  The returned list is in non-increasing order of volume-surge       *)
(* percentage, and candidates of equal percentage are in the order in      *)
(* which they were visited.                                                *)

(* surge percentage of a over that of b, by the ratio recent/previous      *)
SurgeHigher(a, b) == Recent5(a) * Previous10(b) > Recent5(b) * Previous10(a)

BarsRankedOn(j) == Bars(Loaded(PositionOf(new_high_stocks[j].name), "1mo").val.sid)

C6_RankedBySurgeStable ==
    pc = "done" =>
        \A i, j \in 1..Len(new_high_stocks) :
            i < j =>
                /\ ~SurgeHigher(BarsRankedOn(j), BarsRankedOn(i))
                /\ ~SurgeHigher(BarsRankedOn(i), BarsRankedOn(j)) =>
                      PositionOf(new_high_stocks[i].name)
                          < PositionOf(new_high_stocks[j].name)

(* Three candidates: the last visited ranks first, the other two tie.      *)
C6_Witness ==
    /\ pc = "done"
    /\ Len(new_high_stocks) = 3
    /\ new_high_stocks[1].name = "C"
    /\ new_high_stocks[2].name = "A"
    /\ new_high_stocks[3].name = "B"
    /\ ~SurgeHigher(BarsRankedOn(2), BarsRankedOn(3))

-----------------------------------------------------------------------------
(* C7.  Every series a caller receives from a loader has at least 2 bars,  *)
(* so the latest-versus-previous delta of the overview card is always      *)
(* defined.                                                                *)

C7_AtLeastTwoBars ==
    /\ (lastLoad.kind = "load" /\ lastLoad.out.kind = "ret"
            /\ lastLoad.out.val.kind = "frame")
          => Len(Bars(lastLoad.out.val.sid)) >= 2
    /\ card.kind # "crash"

-----------------------------------------------------------------------------
(* C8.  load_data and load_korean_stock_data never let an exception reach  *)
(* their caller: when the provider raises, returns nothing or returns zero *)
(* rows, the loader returns None.                                          *)

C8_LoadersNeverRaise ==
    lastLoad.kind = "load" =>
        /\ lastLoad.out.kind = "ret"
        /\ lastLoad.answer = "failure" => lastLoad.out = Returned(NotAvailable)

(* Both loaders have met a provider failure and returned None.             *)
C8_Witness ==
    /\ card.kind = "load_failed"
    /\ lastLoad.kind = "load"
    /\ lastLoad.key[1] = "load_korean_stock_data"
    /\ lastLoad.answer = "failure"
    /\ lastLoad.out = Returned(NotAvailable)

-----------------------------------------------------------------------------
(* C9.  A failed load is never stored in the cache: a load that is served  *)
(* without calling the provider never returns not-available, so the load   *)
(* that follows a failed load of the same key calls the provider again.    *)

C9_FailuresNotCached ==
    (lastLoad.kind = "load" /\ ~lastLoad.called)
        => lastLoad.out.val # NotAvailable

-----------------------------------------------------------------------------
(* C10.  After a successful load of (symbol, period), every further load   *)
(* of the same key within the ttl returns the same series without calling  *)
(* the provider, also after the caller has written a column to the series  *)
(* it was handed; and a series served from the cache is one that was       *)
(* loaded for exactly the requested symbol and period.                     *)

C10_SameSeriesWithinTTL ==
    lastLoad.kind = "load" =>
        /\ lastLoad.prior.kind = "entry" =>
              /\ ~lastLoad.called
              /\ lastLoad.out = Returned(lastLoad.prior.val)
        /\ (~lastLoad.called /\ lastLoad.out.val.kind = "frame") =>
              /\ lastLoad.prior.kind = "entry"
              /\ lastLoad.out.val.ticker = lastLoad.key[2]
              /\ lastLoad.out.val.period = lastLoad.key[3]

(* A later pass is served the 3-month series an earlier pass loaded and    *)
(* wrote MA60 to, 150 seconds ago, and gets it without that column.        *)
C10_Witness ==
    /\ pc = "trend"
    /\ lastLoad.kind = "load"
    /\ lastLoad.key[3] = "3mo"
    /\ ~lastLoad.called
    /\ lastLoad.prior.kind = "entry"
    /\ lastLoad.prior.age > 0
    /\ lastLoad.out.val.cols = {}
    /\ "MA60" \in data_3m.cols

-----------------------------------------------------------------------------
(* C11.  When every probed day's market-cap listing is empty, has zero     *)
(* total capitalization or is not delivered because the provider raises,   *)
(* the screening does not fail: it goes on to the loop over the hardcoded  *)
(* list of the requested market (the KOSPI list for KOSPI, the KOSDAQ list *)
(* otherwise), visits all of it and returns a result list.                 *)

EveryProbeFailed ==
    /\ Len(probes) = 7
    /\ \A k \in 1..Len(probes) : probes[k].kind \in {"raise", "empty", "zero"}

HardcodedList(market) ==
    LET list == IF market = "KOSPI" THEN KospiFallback ELSE KosdaqFallback
    IN  [i \in 1..(IF FallbackLen < Len(list) THEN FallbackLen ELSE Len(list)) |-> list[i]]

InsideScreening ==
    pc \in {"fetch1m", "newhigh", "volume", "fetch3m", "trend", "qualify", "sort", "done"}

C11_OnFallback ==
    /\ EveryProbeFailed => pc = "fallback"
    /\ pc = "fallback" => EveryProbeFailed
    /\ origin.kind = "fallback" =>
          /\ InsideScreening
          /\ symbols_dict = HardcodedList(market_type)
          /\ pc = "done" => idx = Len(symbols_dict)

C11_FallsBackToHardcodedList ==
    /\ []C11_OnFallback
    /\ [][pc = "fallback" =>
            /\ origin'.kind = "fallback"
            /\ symbols_dict' = HardcodedList(market_type)
            /\ pc' = "fetch1m"]_vars

(* A KOSDAQ screening that fell back and returned a candidate.             *)
C11_Witness ==
    /\ pc = "done"
    /\ origin.kind = "fallback"
    /\ market_type = "KOSDAQ"
    /\ symbols_dict[1].symbol = "247540.KQ"
    /\ Len(new_high_stocks) >= 1

-----------------------------------------------------------------------------
(* C12.  A candidate that passes all three filters is in the results       *)
(* whether or not the EPS lookup yields a value; when no fundamentals are  *)
(* found within the 90 probed days, the year-ago EPS is missing or zero,   *)
(* or the provider raises, get_operating_income_change returns None, and   *)
(* the candidate is appended with its EPS change unavailable.              *)

NoEpsChange(fund) ==
    \/ fund.probe \in {"missing", "raise"}
    \/ fund.probe = "rows" /\ fund.first_day >= 90
    \/ fund.probe = "rows" /\ fund.eps_col /\ fund.prev.kind \in {"raise", "empty"}
    \/ fund.probe = "rows" /\ fund.eps_col /\ fund.prev.kind = "rows"
          /\ (~fund.prev.eps_col \/ fund.prev.eps = 0)

PassedAllFilters(i) ==
    /\ Usable(Loaded(i, "1mo"), 20)
    /\ NearHigh(Bars(Loaded(i, "1mo").val.sid))
    /\ Surge(Bars(Loaded(i, "1mo").val.sid))
    /\ Usable(Loaded(i, "3mo"), 60)
    /\ AboveAverage60(Bars(Loaded(i, "3mo").val.sid))

C12_IncludedWithoutEps ==
    /\ eps_lookup.kind = "lookup" =>
          /\ eps_lookup.out.kind \in {"None", "pct"}
          /\ NoEpsChange(eps_lookup.fund) => eps_lookup.out = NotAvailable
    /\ \A i \in 1..Len(symbols_dict) :
          (i <= idx /\ PassedAllFilters(i)) => InResults(i)
    /\ \A j \in 1..Len(new_high_stocks) :
          new_high_stocks[j].eps_change.kind \in {"None", "pct"}

(* The provider raised on every probed day, and a pass returned one        *)
(* candidate without and one with an EPS change.                           *)
C12_Witness ==
    /\ pc = "done"
    /\ eps_lookup.kind = "lookup"
    /\ eps_lookup.fund.probe = "raise"
    /\ Len(new_high_stocks) = 2
    /\ new_high_stocks[1].eps_change = NotAvailable
    /\ new_high_stocks[2].eps_change.kind = "pct"

-----------------------------------------------------------------------------
(* C13.  A symbol goes past the volume-surge filter only if the mean       *)
(* volume of the last 5 bars of its 1-month series is strictly greater     *)
(* than 1.2 x the mean volume of the 10 bars before them; the two windows  *)
(* are disjoint, hold 5 and 10 bars and lie inside the series, which has   *)
(* at least 20 bars; a symbol that fails the filter is not in the results. *)

RecentWindow(bars) == (Len(bars) - 4)..Len(bars)
PreviousWindow(bars) == (Len(bars) - 14)..(Len(bars) - 5)

WindowsAsStated(bars) ==
    /\ Cardinality(RecentWindow(bars)) = 5
    /\ Cardinality(PreviousWindow(bars)) = 10
    /\ RecentWindow(bars) \cap PreviousWindow(bars) = {}
    /\ (RecentWindow(bars) \cup PreviousWindow(bars)) \subseteq 1..Len(bars)
    /\ RecentVolume(bars) = [sum |-> TotalVolume(bars, RecentWindow(bars)), n |-> 5]
    /\ PrevVolume(bars) = [sum |-> TotalVolume(bars, PreviousWindow(bars)), n |-> 10]

-----------------------------------------------------------------------------
(* C14.  A candidate is in the results only if its 3-month series has at   *)
(* least 60 bars and its latest close is strictly greater than the mean of *)
(* the last 60 closes of that series; a latest close equal to or below     *)
(* that mean is rejected.                                                  *)

ReturnedBars(j) == Bars(new_high_stocks[j].data_with_indicators.sid)

C14_AboveSixtyDayAverage ==
    /\ \A j \in 1..Len(new_high_stocks) :
          /\ new_high_stocks[j].data_with_indicators.period = "3mo"
          /\ Len(ReturnedBars(j)) >= 60
          /\ AboveAverage60(ReturnedBars(j))
          /\ Loaded(PositionOf(new_high_stocks[j].name), "3mo").val.sid
                = new_high_stocks[j].data_with_indicators.sid
    /\ \A i \in 1..Len(symbols_dict) :
          (Len(trace[i]) >= 5 /\ ~AboveAverage60(Bars(Loaded(i, "3mo").val.sid))) =>
              ~InResults(i)

(* A pass that rejected a symbol whose latest close equals its 60-bar      *)
(* average, and returned another.                                          *)
C14_Witness ==
    /\ pc = "done"
    /\ Len(new_high_stocks) >= 1
    /\ \E i \in 1..Len(symbols_dict) :
          /\ Len(trace[i]) = 5
          /\ 60 * Bars(Loaded(i, "3mo").val.sid)[60].Close
                = TotalClose(Bars(Loaded(i, "3mo").val.sid), 1..60)

-----------------------------------------------------------------------------
(* C15.  For every series and every N in {20, 50, 200}, the MA_N column of *)
(* the frame calculate_indicators returns holds, at every index from the   *)
(* N-th on, the exact arithmetic mean of the N closes ending there, and    *)
(* null at the first N-1 indices; a series shorter than N gets an all-null *)
(* column, and no error.                                                   *)

RECURSIVE CloseTotal(_, _, _)
CloseTotal(rows, from, to) ==
    IF from > to THEN 0
    ELSE IF from = to THEN rows[from].Close
    ELSE CloseTotal(rows, from, (from + to) \div 2)
           + CloseTotal(rows, (from + to) \div 2 + 1, to)

(* The call has returned a frame.                                          *)
Produced(out) == out # NotAvailable /\ out.kind = "frame"

MovingAverageColumn(N) ==
    CASE N = 20  -> frame_out.values.MA20
      [] N = 50  -> frame_out.values.MA50
      [] N = 200 -> frame_out.values.MA200

C15_ExactTrailingMean ==
    frame_out # NotAvailable =>
        /\ frame_out.kind = "frame"
        /\ {"MA20", "MA50", "MA200"} \subseteq frame_out.frame.cols
        /\ \A N \in {20, 50, 200} :
              LET col == MovingAverageColumn(N)
                  rows == frame_out.frame.rows
              IN  /\ Len(col) = Len(rows)
                  /\ \A i \in 1..Len(col) :
                        IF i >= N
                        THEN /\ col[i].kind = "num"
                             /\ col[i].n * N = col[i].d * CloseTotal(rows, i - N + 1, i)
                        ELSE col[i] = [kind |-> "NaN"]

-----------------------------------------------------------------------------
(* C16.  In every frame calculate_indicators returns, Ichimoku_Lagging at  *)
(* index i is the close at index i + 26 wherever i + 26 lies inside the    *)
(* series, and the last 26 entries (all of them when the series has at     *)
(* most 26 bars) are null.                                                 *)

C16_LaggingIsCloseAhead ==
    Produced(frame_out) =>
        LET lag == frame_out.values.Ichimoku_Lagging
            rows == frame_out.frame.rows
        IN  /\ "Ichimoku_Lagging" \in frame_out.frame.cols
            /\ Len(lag) = Len(rows)
            /\ \A i \in 1..Len(rows) :
                  IF i + 26 <= Len(rows)
                  THEN lag[i] = [kind |-> "num", n |-> rows[i + 26].Close, d |-> 1]
                  ELSE lag[i] = [kind |-> "NaN"]

(* A frame of 27 bars: only the first entry has a value.                   *)
C16_Witness ==
    /\ Produced(frame_out)
    /\ Len(frame_out.frame.rows) = 27
    /\ frame_out.values.Ichimoku_Lagging[1].kind = "num"
    /\ frame_out.values.Ichimoku_Lagging[2].kind = "NaN"

-----------------------------------------------------------------------------
(* C17.  calculate_indicators is a pure function: a second call on the     *)
(* same series returns a frame identical to the first, and no call changes *)
(* the caller's series (no column is added to it or altered).              *)

C17_SecondCallIdentical ==
    /\ Produced(frame_out) => frame_out.frame.rows = series_in.rows
    /\ frame_again # NotAvailable => frame_again = frame_out

-----------------------------------------------------------------------------
(* C18.  In the frame calculate_indicators returns, Stoch_K is the         *)
(* 6-period smoothing of the raw 10-period %K, not the raw %K itself, and  *)
(* Stoch_D is the 6-period smoothing of Stoch_K.                           *)

(* raw %K = 100 x (close - lowest low of 10 bars) / (highest high - lowest *)
(* low of 10 bars)                                                         *)
RawPercentK(rows) ==
    [i \in 1..Len(rows) |->
        IF i < 10 THEN [kind |-> "NaN"]
        ELSE LET lows == {rows[k].Low : k \in (i - 9)..i}
                 highs == {rows[k].High : k \in (i - 9)..i}
                 lowest == CHOOSE x \in lows : \A y \in lows : x <= y
                 highest == CHOOSE x \in highs : \A y \in highs : x >= y
             IN  IF highest = lowest THEN [kind |-> "NaN"]
                 ELSE Num(100 * (rows[i].Close - lowest), highest - lowest)]

Smoothed(col) == RollingMean(col, 6)

C18_SlowStochastic ==
    Produced(frame_out) =>
        /\ frame_out.values.Stoch_K = Smoothed(RawPercentK(frame_out.frame.rows))
        /\ frame_out.values.Stoch_D = Smoothed(frame_out.values.Stoch_K)

-----------------------------------------------------------------------------
(* C19.  The acquisition probes the listing of today, then of one day      *)
(* earlier, and so on, at most 7 times; it stops at the first probed day   *)
(* that has data and uses that day's listing, so that no older day's       *)
(* listing is used when a more recent probed day has data; a probe that    *)
(* raises is skipped and the search goes on.                               *)

CapOn(day, ticker) ==
    LET row == CHOOSE r \in {Listing(day)[i] : i \in 1..Len(Listing(day))} :
                   r.ticker = ticker
    IN  row.cap

C19_ProbesInOrder ==
    /\ Len(probes) <= 7
    /\ \A k \in 1..Len(probes) :
          /\ probes[k].day = k - 1
          /\ k < Len(probes) => probes[k].kind # "data"
    /\ (Len(probes) > 0 /\ probes[Len(probes)].kind = "data") =>
          /\ pc = "names"
          /\ market_cap_df.kind = "listing"
          /\ market_cap_df.day = Len(probes) - 1
          /\ market_cap_df.rows = Listing(Len(probes) - 1)
    /\ (Len(probes) \in 1..6 /\ probes[Len(probes)].kind # "data") =>
          /\ pc = "probe"
          /\ market_cap_df = NotAvailable
    /\ pc = "names" => probes[Len(probes)].kind = "data"

C19_MostRecentDayWithData ==
    /\ []C19_ProbesInOrder
    /\ [][pc = "names" =>
            /\ origin'.kind = "listing"
            /\ \A i, j \in 1..Len(symbols_dict') :
                  i < j => CapOn(market_cap_df.day, TickerCode(symbols_dict'[i].symbol))
                             > CapOn(market_cap_df.day, TickerCode(symbols_dict'[j].symbol))]_vars

(* The search went past a raise, a holiday and a zero listing and settled  *)
(* on the listing of three days ago.                                       *)
C19_Witness ==
    /\ pc = "names"
    /\ Len(probes) = 4
    /\ probes[1].kind = "raise"
    /\ probes[2].kind = "empty"
    /\ probes[3].kind = "zero"
    /\ market_cap_df.day = 3

-----------------------------------------------------------------------------
(* C20.  As stated: the pass handles the universe one symbol at a time, in *)
(* universe order, and whenever the progress display shows k of total, k   *)
(* symbols have finished processing.                                       *)

Finished == idx

OneAtATimeInOrder ==
    \A i \in 1..Len(symbols_dict) :
        /\ i <= idx => Visits(i) = 1
        /\ i > idx + 1 => trace[i] = <<>>
        /\ Visits(i) <= 1

C20_AsStated ==
    /\ OneAtATimeInOrder
    /\ shown > 0 => Finished = shown

(* C20, amended: the pass handles the universe one symbol at a time, in    *)
(* universe order, and updates the progress display when it begins a       *)
(* symbol: whenever the display shows k of total, symbols 1..k-1 have      *)
(* finished and symbol k has been begun; symbol k itself has finished only *)
(* from its end to the next update.  The display is emptied after the loop.*)
C20_ShownWhenBegun ==
    /\ OneAtATimeInOrder
    /\ shown > 0 =>
          /\ shown <= Len(symbols_dict)
          /\ Visits(shown) = 1
          /\ Finished \in {shown - 1, shown}
          /\ Finished = shown - 1 <=>
                pc \in {"newhigh", "volume", "fetch3m", "trend", "qualify"}
    /\ pc \in {"newhigh", "volume", "fetch3m", "trend", "qualify"} => shown = idx + 1
    /\ pc \in {"idle", "done"} => shown = 0

(* The display shows 2 of 3 while the second symbol is being handled.      *)
C20_Witness ==
    /\ pc = "trend"
    /\ shown = 2
    /\ Finished = 1
    /\ Len(symbols_dict) = 3

-----------------------------------------------------------------------------
(* C21.  Throughout a screening pass, after every loop iteration processed *)
(* + errors equals the number of symbols visited so far: each visited      *)
(* symbol increments exactly one of the two counters exactly once (never   *)
(* both, never neither), the number of qualifiers never exceeds processed, *)
(* and at the end processed + errors equals the universe size.             *)

InLoopBody == pc \in {"newhigh", "volume", "fetch3m", "trend", "qualify"}

AfterLoop == pc \in {"sort", "done"}

(* The symbols whose iteration has ended.                                  *)
VisitedSoFar == idx

Qualifiers == Len(new_high_stocks)

C21_CountersPartition ==
    /\ processed + errors = VisitedSoFar
    /\ Qualifiers <= processed
    /\ AfterLoop => processed + errors = Len(symbols_dict)

(* An iteration ends with exactly one counter raised by exactly one; the   *)
(* counters move at no other step of the loop.                             *)
C21_OneCounterPerSymbol ==
    (pc # "idle") =>
        IF idx' = idx + 1
        THEN \/ processed' = processed + 1 /\ errors' = errors
             \/ processed' = processed /\ errors' = errors + 1
        ELSE idx' = idx /\ processed' = processed /\ errors' = errors

C21_CountersAccountForEverySymbol ==
    /\ []C21_CountersPartition
    /\ [][C21_OneCounterPerSymbol]_vars

(* A finished pass over three symbols that counted both kinds and kept a   *)
(* qualifier.                                                              *)
C21_Witness ==
    /\ pc = "done"
    /\ Len(symbols_dict) = 3
    /\ processed = 2
    /\ errors = 1
    /\ Qualifiers = 1

-----------------------------------------------------------------------------
(* C22.  For every non-empty series, the Ichimoku_Lagging value of the     *)
(* latest bar of the frame calculate_indicators returns is null, and so    *)
(* the lagging-span comparison of the overview, which reads the latest bar *)
(* behind a not-null test, never writes any of its five lines.             *)

LatestLagging(out) == out.values.Ichimoku_Lagging[Len(out.frame.rows)]

C22_LatestLaggingNull ==
    /\ Produced(frame_out) =>
          /\ Len(frame_out.frame.rows) = Len(series_in.rows)
          /\ LatestLagging(frame_out) = [kind |-> "NaN"]
    /\ card.kind = "summary" => card.lagging = "nothing"

(* The summary of a 201-bar series, whose span has values at earlier bars  *)
(* and whose bands are defined, has been shown.                            *)
C22_Witness ==
    /\ card.kind = "summary"
    /\ Len(series_in.rows) = 201
    /\ frame_out.values.Ichimoku_Lagging[175].kind = "num"
    /\ LatestBands(frame_out.frame.rows) # [kind |-> "NaN"]

=============================================================================
